---- MODULE Spec2Model ----
(***************************************************************************)
(* Token-safe translation cache of translate.py: token protection          *)
(* (protect_tokens / restore_tokens), whitespace normalisation (norm_ws),  *)
(* the content-addressed cache (cache_key, load_cache, save_cache), the    *)
(* batch orchestration (translate_segments) and the pipeline over a        *)
(* document (process_file: collect_strings, set_translated,                *)
(* walk_and_postprocess).                                                  *)
(*                                                                         *)
(* A Python str is modelled as a sequence of one-character strings, so     *)
(* "3d8" is <<"3", "d", "8">>.  Positions are 1-based as in TLA+.          *)
(***************************************************************************)
EXTENDS Integers, Sequences, FiniteSets, TLC

VARIABLES
    text,        \* protect_tokens: the argument of the call under study
    out,         \* protect_tokens: the shielded text it returned
    tokens,      \* protect_tokens: the token list it returned
    restored,    \* restore_tokens(out, tokens)
    phase,       \* position of the protect/restore study: "input", "protected", "restored"
    cache,       \* the in-memory cache dict of the run (key -> value)
    disk,        \* the file CACHE_PATH: [ok |-> it exists and parses, data |-> its dict]
    segs,        \* translate_segments: the argument segs
    prepared,    \* translate_segments: prepared
    tokenlists,  \* translate_segments: tokenlists
    results,     \* translate_segments: results (None until filled)
    to_call,     \* translate_segments: to_call
    idxs,        \* translate_segments: idxs (0-based, as in the code)
    start,       \* translate_segments: the variable of the batch loop
    pc,          \* "idle", "batch" (in the batch loop), "done" (returned), "failed" (raised)
    returned,    \* the list translate_segments returned (when pc = "done")
    sent,        \* observation: the provider calls of the current translate_segments call
    cache0,      \* observation: the cache as it was when the current call began
    nsegs,       \* observation: number of segments handed to translate_segments so far
    tupA,        \* cache_key: the arguments <<provider, src, tgt, text>> of one call
    tupB,        \* cache_key: the arguments of another call
    keyA,        \* cache_key(tupA)
    keyB,        \* cache_key(tupB)
    kphase,      \* position of the cache_key study: "input", "keyed"
    ws,          \* norm_ws: the argument of the call under study
    normed,      \* norm_ws(ws)
    renormed,    \* norm_ws(normed)
    wphase,      \* position of the norm_ws study: "input", "normed", "renormed"
    data0,       \* process_file: the document as read from in_path
    data,        \* process_file: data
    segments,    \* process_file: segments
    anchors,     \* process_file: anchors
    translatedAll, \* process_file: translated
    fpc,         \* process_file: "read", "captured" (step 1 done), "collected" (step 2
                 \* done, step 3 under way), "reinjected", "postprocessed",
                 \* "written", "failed" (raised)
    outfile,     \* the document written to out_path (<<>> before)
    calls        \* observation: the provider calls of each finished translate_segments call

tokVars == <<text, out, tokens, restored, phase>>
segVars == <<cache, disk, segs, prepared, tokenlists, results, to_call, idxs, start, pc,
             returned, sent, cache0, nsegs>>
keyVars == <<tupA, tupB, keyA, keyB, kphase>>
wsVars == <<ws, normed, renormed, wphase>>
fileVars == <<data0, data, segments, anchors, translatedAll, fpc, outfile, calls>>

vars == <<tokVars, segVars, keyVars, wsVars, fileVars>>

----------------------------------------------------------------------------
(* Characters and character classes of the regular expressions.            *)

Digits == {"0", "1", "2", "3", "4", "5", "6", "7", "8", "9"}
DigitSeq == <<"0", "1", "2", "3", "4", "5", "6", "7", "8", "9">>
Lower == {"a", "b", "c", "d", "e", "f", "g", "h", "i", "j", "k", "l", "m",
          "n", "o", "p", "q", "r", "s", "t", "u", "v", "w", "x", "y", "z"}
Upper == {"A", "B", "C", "D", "E", "F", "G", "H", "I", "J", "K", "L", "M",
          "N", "O", "P", "Q", "R", "S", "T", "U", "V", "W", "X", "Y", "Z"}
Letters == Lower \cup Upper                              \* [a-zA-Z]
WordChars == Letters \cup Digits \cup {"_"}              \* \w, for \b
AtChars == Letters \cup Digits \cup {"_", ".", "[", "]", "-"}   \* [A-Za-z0-9_.\[\]-]
Braces == {"{", "}"}                                     \* excluded by [^{}]
Whitespace == {" ", "\t", "\n", "\r", "\f"}              \* what str.strip() removes
Blank == {" ", "\t"}                                     \* [ \t]

\* Python's None, where a str is expected (it is no sequence of characters).
None == <<"None">>

\* s[i], or "" (no character) outside the string.
CharAt(s, i) == IF i >= 1 /\ i <= Len(s) THEN s[i] ELSE ""

\* First position >= i of s whose character is not in set (Len(s) + 1 if none):
\* the end of a greedy run [set]* starting at i.
RECURSIVE RunEndIn(_, _, _)
RunEndIn(s, i, set) ==
    IF i > Len(s) \/ s[i] \notin set THEN i ELSE RunEndIn(s, i + 1, set)

\* The same for a negated class [^set]*.
RECURSIVE RunEndNotIn(_, _, _)
RunEndNotIn(s, i, set) ==
    IF i > Len(s) \/ s[i] \in set THEN i ELSE RunEndNotIn(s, i + 1, set)

\* Position of the first "]]" at or after j with no newline before it, 0 if none
\* (the lazy .*? followed by \]\]; "." does not match a newline).
RECURSIVE FindClose(_, _)
FindClose(s, j) ==
    IF j + 1 > Len(s) THEN 0
    ELSE IF s[j] = "]" /\ s[j + 1] = "]" THEN j
    ELSE IF s[j] = "\n" THEN 0
    ELSE FindClose(s, j + 1)

(* Each RE_x(s, i) is the length of the match of the pattern that starts at  *)
(* position i of s, or 0 when the pattern does not match there (no pattern   *)
(* matches the empty string).                                                *)

\* \[\[.*?\]\]
RE_FOUNDRY_BLOCK(s, i) ==
    IF CharAt(s, i) = "[" /\ CharAt(s, i + 1) = "["
    THEN LET j == FindClose(s, i + 2) IN IF j = 0 THEN 0 ELSE j + 2 - i
    ELSE 0

\* {@[^{}]+}
RE_5ETOOLS_TAG(s, i) ==
    IF CharAt(s, i) = "{" /\ CharAt(s, i + 1) = "@"
    THEN LET e == RunEndNotIn(s, i + 2, Braces)
         IN  IF e > i + 2 /\ CharAt(s, e) = "}" THEN e + 1 - i ELSE 0
    ELSE 0

\* @[A-Za-z0-9_.\[\]-]+
RE_AT_TOKEN(s, i) ==
    IF CharAt(s, i) = "@"
    THEN LET e == RunEndIn(s, i + 1, AtChars) IN IF e > i + 1 THEN e - i ELSE 0
    ELSE 0

\* \b\d+d\d+([+-]\d+)?\b
RE_DICE(s, i) ==
    IF CharAt(s, i) \in Digits /\ CharAt(s, i - 1) \notin WordChars
    THEN LET k == RunEndIn(s, i, Digits)
             m == RunEndIn(s, k + 1, Digits)
             g == RunEndIn(s, m + 1, Digits)
         IN  IF CharAt(s, k) = "d" /\ m > k + 1
             THEN IF /\ CharAt(s, m) \in {"+", "-"}
                     /\ g > m + 1
                     /\ CharAt(s, g) \notin WordChars
                  THEN g - i
                  ELSE IF CharAt(s, m) \notin WordChars THEN m - i ELSE 0
             ELSE 0
    ELSE 0

\* /[a-zA-Z]+
RE_COMMAND(s, i) ==
    IF CharAt(s, i) = "/"
    THEN LET e == RunEndIn(s, i + 1, Letters) IN IF e > i + 1 THEN e - i ELSE 0
    ELSE 0

NumPatterns == 5

\* A reordered tuple of patterns: the dice pattern applied before the at-token one.
MatchLenDiceFirst(re, s, i) ==
    CASE re = 1 -> RE_FOUNDRY_BLOCK(s, i)
      [] re = 2 -> RE_5ETOOLS_TAG(s, i)
      [] re = 3 -> RE_DICE(s, i)
      [] re = 4 -> RE_AT_TOKEN(s, i)
      [] re = 5 -> RE_COMMAND(s, i)

\* The tuple of patterns protect_tokens loops over, in its order.
MatchLen(re, s, i) ==
    CASE re = 1 -> RE_FOUNDRY_BLOCK(s, i)
      [] re = 2 -> RE_5ETOOLS_TAG(s, i)
      [] re = 3 -> RE_AT_TOKEN(s, i)
      [] re = 4 -> RE_DICE(s, i)
      [] re = 5 -> RE_COMMAND(s, i)

----------------------------------------------------------------------------
(* protect_tokens / restore_tokens.                                         *)

\* str(n) for n >= 0.
RECURSIVE Dec(_)
Dec(n) == IF n < 10 THEN <<DigitSeq[n + 1]>> ELSE Dec(n \div 10) \o <<DigitSeq[(n % 10) + 1]>>

\* f"§§T{n}§§"
Placeholder(n) == <<"§", "§", "T">> \o Dec(n) \o <<"§", "§">>

\* regex.sub(_sub, s) from position i on: acc is the output so far, toks the
\* shared token list.  Matches are taken leftmost, non-overlapping, on s itself
\* (a replacement is never rescanned).
RECURSIVE SubFrom(_, _, _, _, _)
SubFrom(re, s, i, acc, toks) ==
    IF i > Len(s) THEN [out |-> acc, tokens |-> toks]
    ELSE LET n == MatchLen(re, s, i)
         IN  IF n > 0
             THEN SubFrom(re, s, i + n, acc \o Placeholder(Len(toks)),
                          Append(toks, SubSeq(s, i, i + n - 1)))
             ELSE SubFrom(re, s, i + 1, Append(acc, s[i]), toks)

\* The loop "for regex in (...)" from pattern number re on.
RECURSIVE ProtectFrom(_, _, _)
ProtectFrom(re, s, toks) ==
    IF re > NumPatterns THEN [out |-> s, tokens |-> toks]
    ELSE LET r == SubFrom(re, s, 1, <<>>, toks)
         IN  ProtectFrom(re + 1, r.out, r.tokens)

protect_tokens(t) ==
    IF t = <<>> \/ t = None THEN [out |-> <<>>, tokens |-> <<>>]
    ELSE ProtectFrom(1, t, <<>>)

\* s.replace(old, new) from position i on (old is never empty here).
RECURSIVE ReplaceFrom(_, _, _, _)
ReplaceFrom(s, i, old, new) ==
    IF i > Len(s) THEN <<>>
    ELSE IF i + Len(old) - 1 <= Len(s) /\ SubSeq(s, i, i + Len(old) - 1) = old
         THEN new \o ReplaceFrom(s, i + Len(old), old, new)
         ELSE <<s[i]>> \o ReplaceFrom(s, i + 1, old, new)

Replace(s, old, new) == ReplaceFrom(s, 1, old, new)

\* The loop "for i, tok in enumerate(tokens)" from (1-based) position i on.
RECURSIVE RestoreFrom(_, _, _)
RestoreFrom(s, toks, i) ==
    IF i > Len(toks) THEN s
    ELSE RestoreFrom(Replace(s, Placeholder(i - 1), toks[i]), toks, i + 1)

restore_tokens(t, toks) == RestoreFrom(t, toks, 1)

----------------------------------------------------------------------------
(* norm_ws.                                                                 *)

\* re.sub(r"[ \t]+", " ", s) from position i on.
RECURSIVE CollapseFrom(_, _)
CollapseFrom(s, i) ==
    IF i > Len(s) THEN <<>>
    ELSE IF s[i] \in Blank
         THEN <<" ">> \o CollapseFrom(s, RunEndIn(s, i, Blank))
         ELSE <<s[i]>> \o CollapseFrom(s, i + 1)

\* Index of the last character of s that is not in set (0 if none).
RECURSIVE LastNotIn(_, _, _)
LastNotIn(s, i, set) ==
    IF i = 0 \/ s[i] \notin set THEN i ELSE LastNotIn(s, i - 1, set)

\* s.strip()
Strip(s) == SubSeq(s, RunEndIn(s, 1, Whitespace), LastNotIn(s, Len(s), Whitespace))

norm_ws(s) ==
    Strip(CollapseFrom(Replace(IF s = None THEN <<>> ELSE s, <<"\r", "\n">>, <<"\n">>), 1))

----------------------------------------------------------------------------
(* The cache and the provider.                                              *)

DEFAULT_SRC == <<"E", "N">>
DEFAULT_TGT == <<"F", "R">>
DEEPL == <<"d", "e", "e", "p", "l">>
BATCH_SIZE == 2    \* 30 in the source; scaled down so that a call takes several batches

\* make_translator with TRANSLATE_SRC / TRANSLATE_TGT unset.
translator == [src |-> DEFAULT_SRC, tgt |-> DEFAULT_TGT]

\* The four inputs hashed one after the other with nothing between them.
cache_keyUnseparated(provider, src, tgt, t) ==
    provider \o src \o tgt \o t

\* sha256 is taken as injective: a digest is represented by the string it hashes.
cache_key(provider, src, tgt, t) ==
    provider \o <<"|">> \o src \o <<"|">> \o tgt \o <<"|">> \o t

EmptyDict == [k \in {} |-> <<>>]

\* d[k] = v on a dict.
DictSet(d, k, v) == [x \in (DOMAIN d) \cup {k} |-> IF x = k THEN v ELSE d[x]]

\* A missing or unparsable file gives {}.
load_cache(file) == IF file.ok THEN file.data ELSE EmptyDict

\* The file is rewritten whole.
save_cache(c) == [ok |-> TRUE, data |-> c]

\* What the DeepL service answers for one text: some translation that keeps the
\* placeholders in place.  The service is outside the repository; it is
\* deterministic here.
DeepL(t) == <<"F">> \o t

\* An item the service returns beyond those asked for.
Surplus == <<"X">>

\* DeepLTranslator.translate_batch when no exception is raised: the list built
\* from js["translations"], which the code takes at whatever length it has.
\* reply: "ok" one item per text, "short" one item missing, "long" one too many.
translate_batch(texts, reply) ==
    LET full == [k \in 1..Len(texts) |-> DeepL(texts[k])]
    IN  CASE reply = "ok" -> full
          [] reply = "short" -> SubSeq(full, 1, Len(full) - 1)
          [] reply = "long" -> Append(full, Surplus)

----------------------------------------------------------------------------
(* translate_segments.                                                      *)

Min(a, b) == IF a <= b THEN a ELSE b

\* Lines 157-161: what the first loop leaves in prepared[i] and tokenlists[i].
Prepare(s) == protect_tokens(norm_ws(s))

\* A lookup by the text itself instead of by its key.
IsHitByText(c, s) == s # <<>> /\ s \in DOMAIN c

\* Line 169: the condition of a cache hit.
IsHit(c, s) ==
    s # <<>> /\ cache_key(DEEPL, translator.src, translator.tgt, s) \in DOMAIN c

\* Lines 167-173: the lookup loop from position i on (1-based); acc holds
\* results, to_call and idxs.
RECURSIVE LookupFrom(_, _, _, _, _)
LookupFrom(c, prep, toks, i, acc) ==
    IF i > Len(prep) THEN acc
    ELSE LET s == prep[i]
             key == cache_key(DEEPL, translator.src, translator.tgt, s)
         IN  IF IsHit(c, s)
             THEN LookupFrom(c, prep, toks, i + 1,
                     [acc EXCEPT !.results = Append(@, restore_tokens(c[key], toks[i]))])
             ELSE LookupFrom(c, prep, toks, i + 1,
                     [results |-> Append(acc.results, None),
                      to_call |-> Append(acc.to_call, s),
                      idxs |-> Append(acc.idxs, i - 1)])

\* A slice one element short: to_call[start:start + BATCH_SIZE - 1].
PartOneShort(tc, st) == SubSeq(tc, st + 1, Min(st + BATCH_SIZE - 1, Len(tc)))

\* Line 176: part = to_call[start:start + BATCH_SIZE]
Part(tc, st) == SubSeq(tc, st + 1, Min(st + BATCH_SIZE, Len(tc)))

\* The offset of the batch forgotten: idxs[j].
GlobalIndexNoStart(ix, st, j) == ix[j + 1]

\* Line 181: i_glob = idxs[start + j]
GlobalIndex(ix, st, j) == ix[st + j + 1]

\* Line 185: the value written into the cache for a translated item tr whose
\* token-restored form is fixed.
CacheValue(tr, fixed) == fixed

\* Lines 180-185: the loop over the provider's items from j on (0-based).
\* An index past the end of idxs raises IndexError: what was written before it
\* stays in memory.
RECURSIVE StoreFrom(_, _, _, _)
StoreFrom(translated, st, j, acc) ==
    IF j >= Len(translated) THEN acc
    ELSE IF st + j >= Len(idxs) THEN [acc EXCEPT !.raised = TRUE]
    ELSE LET i_glob == GlobalIndex(idxs, st, j)
             tr == translated[j + 1]
             fixed == restore_tokens(tr, tokenlists[i_glob + 1])
             key == cache_key(DEEPL, translator.src, translator.tgt, prepared[i_glob + 1])
         IN  StoreFrom(translated, st, j + 1,
                 [results |-> [acc.results EXCEPT ![i_glob + 1] = fixed],
                  cache |-> DictSet(acc.cache, key, CacheValue(tr, fixed)),
                  raised |-> FALSE])

\* No save inside the loop: the file stays as it was.
PersistNothing(file, c) == file

\* Line 186, inside the batch loop: the file after the batch, given the file
\* before it and the cache.
Persist(file, c) == save_cache(c)

\* Line 189.
FinalResults(res) == [i \in 1..Len(res) |-> IF res[i] # None THEN res[i] ELSE <<>>]

----------------------------------------------------------------------------
(* Inputs.                                                                  *)

MaxFrags == 4    \* a text of the protect/restore study is made of at most MaxFrags fragments
MaxSegs == 3     \* segments per translate_segments call
MaxTotal == 4    \* segments of all the translate_segments calls of a behaviour

\* Pieces of text: one match of each pattern class, an opening and a closing
\* brace of a tag, a blank, and text that looks like a placeholder.
Fragments ==
    { <<"[", "[", "/", "x", "]", "]">>, <<"{", "@">>, <<"}">>, <<"@", "i">>,
      <<"3", "d", "8">>, <<"/", "r">>, <<" ">>, <<"§", "§", "T", "0", "§", "§">> }

RECURSIVE FragTexts(_)
FragTexts(n) ==
    IF n = 0 THEN {<<>>}
    ELSE LET shorter == FragTexts(n - 1)
         IN  shorter \cup {t \o f : t \in shorter, f \in Fragments}

\* One match of each of the five pattern classes, in the order of the classes.
OneOfEach ==
    << <<"[", "[", "/", "x", "]", "]">>, <<"{", "@", "s", "}">>, <<"@", "i">>,
       <<"3", "d", "8">>, <<"/", "r">> >>

Perms == {p \in [1..NumPatterns -> 1..NumPatterns] : \A i, j \in 1..NumPatterns : p[i] = p[j] => i = j}
Identity == [i \in 1..NumPatterns |-> i]

\* The five matches in the order p, separated by blanks.
RECURSIVE JoinFrom(_, _)
JoinFrom(p, i) ==
    IF i = NumPatterns THEN OneOfEach[p[i]]
    ELSE OneOfEach[p[i]] \o <<" ">> \o JoinFrom(p, i + 1)
PermText(p) == JoinFrom(p, 1)
PermTexts == {PermText(p) : p \in Perms}

\* The example of the specification's section 8.
SpecExample ==
    <<"C", "a", "s", "t", " ", "[", "[", "/", "d", "a", "m", "a", "g", "e",
       "]", "]", " ", "u", "s", "i", "n", "g", " ", "{", "@", "s", "p", "e",
       "l", "l", " ", "F", "i", "r", "e", "b", "a", "l", "l", "|", "p", "h",
       "b", "}", " ", "a", "t", " ", "@", "i", "t", "e", "m", ".", "l", "e",
       "v", "e", "l", " ", "d", "e", "a", "l", "i", "n", "g", " ", "3", "d",
       "8", " ", "r", "a", "d", "i", "a", "n", "t", " ", "v", "i", "a", " ",
       "/", "r", "o", "l", "l">>
SpecExampleTokens ==
    << <<"[", "[", "/", "d", "a", "m", "a", "g", "e", "]", "]">>,
       <<"{", "@", "s", "p", "e", "l", "l", " ", "F", "i", "r", "e", "b", "a", "l", "l", "|", "p", "h", "b", "}">>,
       <<"@", "i", "t", "e", "m", ".", "l", "e", "v", "e", "l">>,
       <<"3", "d", "8">>,
       <<"/", "r", "o", "l", "l">> >>

Texts == FragTexts(MaxFrags) \cup PermTexts \cup {SpecExample}

\* Segments handed to translate_segments: null, empty and blank ones, a text
\* in two whitespace variants, and two texts that differ only in a dice
\* expression.
SegPool ==
    { None, <<>>, <<" ">>, <<"a">>, <<" ", "a">>,
      <<"1", "d", "2">>, <<"3", "d", "4">> }

\* The lists of at most n segments.
SegLists(n) == UNION {[1..k -> SegPool] : k \in 0..n}

\* The string values of the documents handed to process_file.
DocTexts ==
    { <<"a">>, <<"1", "d", "2">>, <<"S", "m", "i", "t", "e">>,
      <<"d", "a", "m", "a", "g", "e">>, <<"b", "o", "n", "u", "s">>, <<"h", "a", "l", "f">>,
      <<"b", "l", "i", "n", "d", "e", "d">> }

\* Prepare on the segments of the pools, computed once.
Prepared == [s \in SegPool \cup DocTexts |-> Prepare(s)]

\* The cache file before the first run: absent, or holding one earlier translation.
InitialDisks ==
    { [ok |-> FALSE, data |-> EmptyDict],
      [ok |-> TRUE,
       data |-> DictSet(EmptyDict, cache_key(DEEPL, DEFAULT_SRC, DEFAULT_TGT, <<"a">>),
                        <<"F", "a">>)] }

----------------------------------------------------------------------------
(* The protect/restore study: protect_tokens applied to a text, then        *)
(* restore_tokens applied to what it returned.                              *)

\* The studies that are not running stay at rest.
IdleKey ==
    tupA = <<>> /\ tupB = <<>> /\ keyA = <<>> /\ keyB = <<>> /\ kphase = "input"

IdleWs ==
    ws = <<>> /\ normed = <<>> /\ renormed = <<>> /\ wphase = "input"

IdleFile ==
    /\ data0 = <<>> /\ data = <<>> /\ segments = <<>> /\ anchors = <<>>
    /\ translatedAll = <<>> /\ fpc = "read" /\ outfile = <<>> /\ calls = <<>>

IdleSegs ==
    /\ cache = EmptyDict /\ disk = [ok |-> FALSE, data |-> EmptyDict]
    /\ segs = <<>> /\ prepared = <<>> /\ tokenlists = <<>> /\ results = <<>>
    /\ to_call = <<>> /\ idxs = <<>> /\ start = 0 /\ pc = "idle"
    /\ returned = <<>> /\ sent = <<>> /\ cache0 = EmptyDict /\ nsegs = 0

InitTokens ==
    /\ text \in Texts
    /\ out = <<>> /\ tokens = <<>> /\ restored = <<>> /\ phase = "input"
    /\ IdleSegs
    /\ IdleKey /\ IdleWs /\ IdleFile

Protect ==
    /\ phase = "input"
    /\ LET p == protect_tokens(text)
       IN  out' = p.out /\ tokens' = p.tokens
    /\ phase' = "protected"
    /\ UNCHANGED <<text, restored>>
    /\ UNCHANGED <<segVars, keyVars, wsVars, fileVars>>

Restore ==
    /\ phase = "protected"
    /\ restored' = restore_tokens(out, tokens)
    /\ phase' = "restored"
    /\ UNCHANGED <<text, out, tokens>>
    /\ UNCHANGED <<segVars, keyVars, wsVars, fileVars>>

NextTokens == Protect \/ Restore

SpecTokens == InitTokens /\ [][NextTokens]_vars

----------------------------------------------------------------------------
(* The translation run: process_file loads the cache, then calls            *)
(* translate_segments on one list of segments after another.                *)

IdleTokens ==
    text = <<>> /\ out = <<>> /\ tokens = <<>> /\ restored = <<>> /\ phase = "input"

Init ==
    /\ IdleTokens
    /\ IdleKey /\ IdleWs /\ IdleFile
    /\ disk \in InitialDisks
    /\ cache = load_cache(disk)
    /\ segs = <<>> /\ prepared = <<>> /\ tokenlists = <<>> /\ results = <<>>
    /\ to_call = <<>> /\ idxs = <<>> /\ start = 0 /\ pc = "idle"
    /\ returned = <<>> /\ sent = <<>> /\ cache0 = cache /\ nsegs = 0

\* translate_segments(translator, s, cache) up to its first provider call:
\* lines 155-173.
EnterTranslateSegments(s) ==
    /\ LET prep == [i \in 1..Len(s) |-> Prepared[s[i]].out]
           toks == [i \in 1..Len(s) |-> Prepared[s[i]].tokens]
           r == LookupFrom(cache, prep, toks, 1,
                           [results |-> <<>>, to_call |-> <<>>, idxs |-> <<>>])
       IN  /\ segs' = s
           /\ prepared' = prep
           /\ tokenlists' = toks
           /\ results' = r.results
           /\ to_call' = r.to_call
           /\ idxs' = r.idxs
    /\ start' = 0
    /\ pc' = "batch"
    /\ returned' = <<>>
    /\ sent' = <<>>
    /\ cache0' = cache
    /\ nsegs' = nsegs + Len(s)
    /\ UNCHANGED <<cache, disk>>
    /\ UNCHANGED <<tokVars, keyVars, wsVars, fileVars>>

\* A call of translate_segments in a run that makes one call after another.
TranslateSegments(s) ==
    /\ pc \in {"idle", "done"}
    /\ nsegs + Len(s) <= MaxTotal
    /\ EnterTranslateSegments(s)

\* One turn of the batch loop in which translate_batch returns a list:
\* lines 176-187.
Batch(reply) ==
    /\ pc = "batch"
    /\ start < Len(to_call)
    /\ LET part == Part(to_call, start)
           translated == translate_batch(part, reply)
           r == StoreFrom(translated, start, 0,
                          [results |-> results, cache |-> cache, raised |-> FALSE])
       IN  /\ sent' = Append(sent, [texts |-> part, reply |-> reply, before |-> cache])
           /\ results' = r.results
           /\ cache' = r.cache
           /\ IF r.raised
              THEN pc' = "failed" /\ UNCHANGED <<disk, start>>
              ELSE /\ disk' = Persist(disk, r.cache)
                   /\ start' = start + BATCH_SIZE
                   /\ pc' = "batch"
    /\ UNCHANGED <<segs, prepared, tokenlists, to_call, idxs, returned, cache0, nsegs>>
    /\ UNCHANGED <<tokVars, keyVars, wsVars, fileVars>>

\* One turn of the batch loop in which translate_batch raises (HTTP status
\* >= 400, no JSON in the body, an item without "text"): lines 134-138.
BatchRaises ==
    /\ pc = "batch"
    /\ start < Len(to_call)
    /\ sent' = Append(sent, [texts |-> Part(to_call, start), reply |-> "raise",
                             before |-> cache])
    /\ pc' = "failed"
    /\ UNCHANGED <<cache, disk, segs, prepared, tokenlists, results, to_call, idxs,
                   start, returned, cache0, nsegs>>
    /\ UNCHANGED <<tokVars, keyVars, wsVars, fileVars>>

\* The batch loop is over: line 189.
Return ==
    /\ pc = "batch"
    /\ start >= Len(to_call)
    /\ returned' = FinalResults(results)
    /\ pc' = "done"
    /\ UNCHANGED <<cache, disk, segs, prepared, tokenlists, results, to_call, idxs,
                   start, sent, cache0, nsegs>>
    /\ UNCHANGED <<tokVars, keyVars, wsVars, fileVars>>

\* A new run of the script after one that raised: process_file line 361.
LoadCache ==
    /\ pc = "failed"
    /\ cache' = load_cache(disk)
    /\ cache0' = load_cache(disk)
    /\ segs' = <<>> /\ prepared' = <<>> /\ tokenlists' = <<>> /\ results' = <<>>
    /\ to_call' = <<>> /\ idxs' = <<>> /\ start' = 0 /\ pc' = "idle"
    /\ returned' = <<>> /\ sent' = <<>>
    /\ UNCHANGED <<disk, nsegs>>
    /\ UNCHANGED <<tokVars, keyVars, wsVars, fileVars>>

Next ==
    \/ \E s \in SegLists(Min(MaxSegs, MaxTotal - nsegs)) : TranslateSegments(s)
    \/ \E reply \in {"ok", "short", "long"} : Batch(reply)
    \/ BatchRaises
    \/ Return
    \/ LoadCache

Spec == Init /\ [][Next]_vars

----------------------------------------------------------------------------
(* Properties of protect_tokens and restore_tokens (under SpecTokens).      *)

\* Position of the first occurrence of pat in s at or after i, 0 if none.
RECURSIVE FindFrom(_, _, _)
FindFrom(s, pat, i) ==
    IF i + Len(pat) - 1 > Len(s) THEN 0
    ELSE IF SubSeq(s, i, i + Len(pat) - 1) = pat THEN i
    ELSE FindFrom(s, pat, i + 1)
Find(s, pat) == FindFrom(s, pat, 1)

\* The pattern class a token belongs to, read off its first character (the
\* five patterns begin with different characters).
ClassOf(tok) ==
    CASE tok[1] = "[" -> 1
      [] tok[1] = "{" -> 2
      [] tok[1] = "@" -> 3
      [] tok[1] \in Digits -> 4
      [] tok[1] = "/" -> 5

\* The numbers n whose placeholder occurs in s.
PlaceholdersIn(s) == {n \in 0..Len(s) : Find(s, Placeholder(n)) > 0}

\* C1 (as claimed): restore_tokens applied to the result of protect_tokens
\* gives back the input text, for every text.
C1_RoundTrip == phase = "restored" => restored = text

\* C1: the input is a tag that encloses a bracketed block, and the round trip
\* has run on it.
C1_NestedInput ==
    /\ phase = "restored"
    /\ text = <<"{", "@", "[", "[", "/", "x", "]", "]", "}">>

\* C10 (as claimed): the token list holds the matches in left-to-right order
\* of their position in the text; on a text with one match of each class, in
\* any order, the five tokens come out in the order they have in the text.
C10_LeftToRight ==
    phase # "input" =>
        \A p \in Perms : text = PermText(p) =>
            tokens = [i \in 1..NumPatterns |-> OneOfEach[p[i]]]

\* C10 (amended): the tokens are numbered class by class in the order of the
\* patterns, and left to right among the matches of one class (placeholder of
\* the lower index to the left, when the text holds no placeholder-looking
\* text and both placeholders are in the shielded text); a text with one
\* match of each class in the order of the classes gives placeholders 0..4
\* from left to right and the five matched substrings in that order.
C10_ClassThenLeftToRight ==
    phase # "input" =>
        /\ \A i, j \in 1..Len(tokens) :
              i < j => ClassOf(tokens[i]) <= ClassOf(tokens[j])
        /\ Find(text, <<"§">>) = 0 =>
              \A i, j \in 1..Len(tokens) :
                  (/\ i < j
                   /\ ClassOf(tokens[i]) = ClassOf(tokens[j])
                   /\ Find(out, Placeholder(i - 1)) > 0
                   /\ Find(out, Placeholder(j - 1)) > 0)
                  => Find(out, Placeholder(i - 1)) < Find(out, Placeholder(j - 1))
        /\ text \in {PermText(Identity), SpecExample} =>
              /\ tokens = (IF text = SpecExample THEN SpecExampleTokens ELSE OneOfEach)
              /\ PlaceholdersIn(out) = 0..(NumPatterns - 1)
              /\ \A m, n \in 0..(NumPatterns - 1) :
                    m < n => Find(out, Placeholder(m)) < Find(out, Placeholder(n))

\* C10: a text whose five matches stand in the reverse of the class order has
\* been protected, and its tokens came out in class order.
C10_Reordered ==
    /\ phase = "protected"
    /\ text = PermText([i \in 1..NumPatterns |-> NumPatterns + 1 - i])
    /\ tokens = OneOfEach

----------------------------------------------------------------------------
(* Properties of translate_segments (under Spec).  They speak of the        *)
(* current call: its argument segs, the cache cache0 it started with, the   *)
(* provider calls sent it has made and, once pc = "done", the list returned.*)

InCall == pc \in {"batch", "done", "failed"}

Key(t) == cache_key(DEEPL, DEFAULT_SRC, DEFAULT_TGT, t)

\* The normalized-and-protected text of segment i, and its tokens.
PrepOf(i) == Prepared[segs[i]].out
TokensOf(i) == Prepared[segs[i]].tokens

\* Segment i is empty, null, or empty after whitespace normalization.
IsEmptySeg(i) == PrepOf(i) = <<>>

\* The key of text t was in the cache when the call began.
HitText(t) == t # <<>> /\ Key(t) \in DOMAIN cache0
HitAtStart(i) == HitText(PrepOf(i))
MissText(t) == ~HitText(t)

\* The texts of the cache misses, in the order of the segments.
MissTexts == SelectSeq([i \in 1..Len(segs) |-> PrepOf(i)], MissText)

AllRepliesOk == \A k \in 1..Len(sent) : sent[k].reply = "ok"

\* Number of times text t was handed to the provider in the current call.
TimesSent(t) ==
    Cardinality({<<k, j>> \in (1..Len(sent)) \X (1..BATCH_SIZE) :
                    j <= Len(sent[k].texts) /\ sent[k].texts[j] = t})

\* C2 (as claimed): an empty or null segment is never in a batch handed to the
\* provider, its output is the empty string, and it writes no cache entry.
C2_EmptySkipped ==
    InCall =>
        /\ \A i \in 1..Len(segs) : IsEmptySeg(i) => TimesSent(PrepOf(i)) = 0
        /\ pc = "done" => \A i \in 1..Len(segs) : IsEmptySeg(i) => returned[i] = <<>>
        /\ Key(<<>>) \notin DOMAIN cache

\* C3 (as claimed): once the provider has returned a number of results that
\* differs from the number of texts of the batch, the call has failed (it is
\* not going on, and has not returned) and the cache is as it was before that
\* batch.
C3_MismatchFails ==
    \A k \in 1..Len(sent) :
        sent[k].reply \in {"short", "long"} => pc = "failed" /\ cache = sent[k].before

\* C4 (as claimed): the entry written for a submitted text maps the key of the
\* normalized-and-protected text to the provider's string, placeholders still
\* in place.
C4_CacheHoldsProtected ==
    (InCall /\ AllRepliesOk) =>
        \A k \in 1..Len(sent) : \A j \in 1..Len(sent[k].texts) :
            LET t == sent[k].texts[j]
            IN  Key(t) \in DOMAIN cache /\ cache[Key(t)] = DeepL(t)

\* C5 (as claimed): two segments that differ only in whitespace, processed
\* from an empty cache, make one cache entry and their text goes to the
\* provider at most once.  (Stated for segments that are not empty after
\* normalization and a provider that answers every batch in full.)
C5_OneEntryOneSubmission ==
    (pc = "done" /\ cache0 = EmptyDict /\ AllRepliesOk) =>
        \A i, j \in 1..Len(segs) :
            (segs[i] # segs[j] /\ norm_ws(segs[i]) = norm_ws(segs[j]) /\ ~IsEmptySeg(i))
            => /\ TimesSent(PrepOf(i)) <= 1
               /\ Key(PrepOf(i)) \in DOMAIN cache

\* C6: a segment that is not empty after normalization and whose key is in
\* the cache when the call begins is in no provider call, and its output is
\* restore_tokens of the cached value with its own tokens; when every segment
\* is such a hit there is no provider call, no failure, and the cache and the
\* file stay as they were.
C6_HitsServedFromCache ==
    InCall =>
        /\ \A i \in 1..Len(segs) : HitAtStart(i) =>
              /\ TimesSent(PrepOf(i)) = 0
              /\ pc = "done" =>
                    returned[i] = restore_tokens(cache0[Key(PrepOf(i))], TokensOf(i))
        /\ (\A i \in 1..Len(segs) : HitAtStart(i)) =>
              sent = <<>> /\ pc # "failed" /\ cache = cache0 /\ load_cache(disk) = cache0

\* C6: a call has returned in which one segment was a hit and another was not.
C6_HitAndMiss ==
    /\ pc = "done"
    /\ \E i, j \in 1..Len(segs) : HitAtStart(i) /\ ~HitAtStart(j) /\ ~IsEmptySeg(j)

\* C7: when the provider answers every batch in full, the returned list is as
\* long as segs and position i holds the result of segment i: the cached value
\* for a hit, the provider's translation of its text for a miss, each with the
\* tokens of segment i restored.
C7_OrderPreserved ==
    (pc = "done" /\ AllRepliesOk) =>
        /\ Len(returned) = Len(segs)
        /\ \A i \in 1..Len(segs) :
              returned[i] =
                  restore_tokens(IF HitAtStart(i) THEN cache0[Key(PrepOf(i))]
                                 ELSE DeepL(PrepOf(i)),
                                 TokensOf(i))

\* C7: a call has returned whose segments were a miss, a hit and another miss,
\* none of them empty, the misses answered by the provider with different
\* results.
C7_Interleaved ==
    /\ pc = "done" /\ AllRepliesOk /\ Len(segs) = 3
    /\ ~HitAtStart(1) /\ HitAtStart(2) /\ ~HitAtStart(3)
    /\ ~IsEmptySeg(1) /\ ~IsEmptySeg(3)
    /\ returned[1] # returned[3]

\* C8: the k-th provider call of a translate_segments call holds the k-th
\* slice of BATCH_SIZE texts of the misses taken in the order of the segments
\* (so every batch but possibly the last is full), and a call that returns has
\* made ceil(m / BATCH_SIZE) provider calls for its m misses.
C8_Batches ==
    InCall =>
        LET m == Len(MissTexts)
            full == (m + BATCH_SIZE - 1) \div BATCH_SIZE
        IN  /\ Len(sent) <= full
            /\ \A k \in 1..Len(sent) :
                  sent[k].texts = SubSeq(MissTexts, (k - 1) * BATCH_SIZE + 1,
                                         Min(k * BATCH_SIZE, m))
            /\ pc = "done" => Len(sent) = full

\* C8: a call with more misses than one batch holds, none of them empty, has
\* returned after a full batch and a last, shorter one.
C8_TwoBatches ==
    /\ pc = "done" /\ Len(sent) = 2
    /\ Len(sent[1].texts) = BATCH_SIZE /\ Len(sent[2].texts) = 1
    /\ \A i \in 1..Len(segs) : ~IsEmptySeg(i)

\* C9: between batches the cache file holds the whole cache; when a batch
\* fails, the file holds the cache as it was when that batch was submitted:
\* what the run loaded and every entry of the batches before it.
C9_PersistedAfterEachBatch ==
    /\ pc \in {"idle", "batch", "done"} => load_cache(disk) = cache
    /\ pc = "failed" => load_cache(disk) = sent[Len(sent)].before

\* C9: the provider call of the second batch has raised after a first batch
\* that added entries for segments that are not empty to the cache.
C9_SecondBatchFails ==
    /\ pc = "failed" /\ Len(sent) = 2 /\ sent[2].reply = "raise"
    /\ DOMAIN sent[2].before # DOMAIN cache0
    /\ \A i \in 1..Len(segs) : ~IsEmptySeg(i)

\* C11 (as claimed): within a run no key leaves the cache and the value of a
\* key that is in the cache never changes (a step of LoadCache begins a new
\* run).  (Stated for the steps of a call whose batches the provider has
\* answered in full.)
C11_AppendOnly ==
    [][(pc # "failed" /\ AllRepliesOk') =>
          \A k \in DOMAIN cache : k \in DOMAIN cache' /\ cache'[k] = cache[k]]_vars

\* C15 (as claimed): a segment served from a cache entry that is the fresh
\* translation of an earlier segment with the same shielded text comes out as
\* it would when translated fresh on an empty cache.
C15_CacheTransparent ==
    pc = "done" =>
        \A i \in 1..Len(segs) :
            (/\ HitAtStart(i)
             /\ \E s \in SegPool :
                    /\ Prepared[s].out = PrepOf(i)
                    /\ cache0[Key(PrepOf(i))] =
                           restore_tokens(DeepL(Prepared[s].out), Prepared[s].tokens))
            => returned[i] = restore_tokens(DeepL(PrepOf(i)), TokensOf(i))

----------------------------------------------------------------------------
(* The cache_key study: cache_key applied to two argument tuples.           *)

MaxField == 1    \* length of a source or target language code

\* Strings of at most n characters over a letter and the delimiter.
Fields(n) ==
    UNION { [1..k -> {"E", "|"}] : k \in 0..n }

KeyProviders == {DEEPL, DEEPL \o <<"|">>}

KeyTexts == {<<>>, <<"|">>, <<"E">>, <<"|", "E">>}

KeyTuples ==
    { <<p, s, t, x>> : p \in KeyProviders, s \in Fields(MaxField),
                       t \in Fields(MaxField), x \in KeyTexts }

InitKey ==
    /\ tupA \in KeyTuples /\ tupB \in KeyTuples
    /\ keyA = <<>> /\ keyB = <<>> /\ kphase = "input"
    /\ IdleTokens /\ IdleSegs /\ IdleWs /\ IdleFile

CacheKey ==
    /\ kphase = "input"
    /\ keyA' = cache_key(tupA[1], tupA[2], tupA[3], tupA[4])
    /\ keyB' = cache_key(tupB[1], tupB[2], tupB[3], tupB[4])
    /\ kphase' = "keyed"
    /\ UNCHANGED <<tupA, tupB>>
    /\ UNCHANGED <<tokVars, segVars, wsVars, fileVars>>

NextKey == CacheKey

SpecKey == InitKey /\ [][NextKey]_vars

HasDelimiter(s) == \E i \in 1..Len(s) : s[i] = "|"

\* The provider, source language and target language of tup hold no "|".
DelimiterFree(tup) ==
    ~HasDelimiter(tup[1]) /\ ~HasDelimiter(tup[2]) /\ ~HasDelimiter(tup[3])

\* C13 (as claimed): identical tuples give the identical key and any two
\* distinct tuples give distinct keys.
C13_Injective ==
    kphase = "keyed" =>
        /\ tupA = tupB => keyA = keyB
        /\ tupA # tupB => keyA # keyB

\* C13 (amended): identical tuples give the identical key, and two distinct
\* tuples whose provider, source language and target language hold no "|"
\* give distinct keys, whatever the texts hold.
C13_InjectiveWithoutDelimiter ==
    kphase = "keyed" =>
        /\ tupA = tupB => keyA = keyB
        /\ (tupA # tupB /\ DelimiterFree(tupA) /\ DelimiterFree(tupB)) => keyA # keyB

\* Two distinct delimiter-free tuples, one with a "|" in its text, keyed apart.
C13_DelimiterInText ==
    /\ kphase = "keyed" /\ tupA # tupB
    /\ DelimiterFree(tupA) /\ DelimiterFree(tupB)
    /\ HasDelimiter(tupA[4]) /\ ~HasDelimiter(tupB[4])
    /\ tupA[2] = tupB[2] /\ tupA[3] = tupB[3]
    /\ keyA # keyB

----------------------------------------------------------------------------
(* The norm_ws study: norm_ws applied to a string, then to its own result.  *)

MaxWsLen == 5    \* length of the string handed to norm_ws

WsChars == {"a", " ", "\t", "\r", "\n"}

\* None and the strings of at most MaxWsLen characters.
WsInputs ==
    {None} \cup UNION { [1..k -> WsChars] : k \in 0..MaxWsLen }

InitWs ==
    /\ ws \in WsInputs
    /\ normed = <<>> /\ renormed = <<>> /\ wphase = "input"
    /\ IdleTokens /\ IdleSegs /\ IdleKey /\ IdleFile

Normalize ==
    /\ wphase = "input"
    /\ normed' = norm_ws(ws)
    /\ wphase' = "normed"
    /\ UNCHANGED <<ws, renormed>>
    /\ UNCHANGED <<tokVars, segVars, keyVars, fileVars>>

Renormalize ==
    /\ wphase = "normed"
    /\ renormed' = norm_ws(normed)
    /\ wphase' = "renormed"
    /\ UNCHANGED <<ws, normed>>
    /\ UNCHANGED <<tokVars, segVars, keyVars, fileVars>>

NextWs == Normalize \/ Renormalize

SpecWs == InitWs /\ [][NextWs]_vars

\* C14 (as claimed): what norm_ws returns has no two adjacent space/tab
\* characters, no whitespace at either end and no carriage return in front of
\* a newline, and norm_ws applied to it returns it unchanged.
C14_Normalised ==
    wphase = "renormed" =>
        /\ \A i \in 1..(Len(normed) - 1) :
               ~(normed[i] \in Blank /\ normed[i + 1] \in Blank)
        /\ normed # <<>> =>
               normed[1] \notin Whitespace /\ normed[Len(normed)] \notin Whitespace
        /\ \A i \in 1..(Len(normed) - 1) :
               ~(normed[i] = "\r" /\ normed[i + 1] = "\n")
        /\ renormed = normed

----------------------------------------------------------------------------
(* The document tree of process_file.  A JSON value is a record: a string   *)
(* carries its characters in val, a dict its (key, value) pairs in items in *)
(* insertion order, a list its values in items (paired with no key), and    *)
(* null carries nothing.                                                    *)

NoKey == <<>>

JStr(v) == [kind |-> "str", val |-> v, items |-> <<>>]
JNull == [kind |-> "null", val |-> <<>>, items |-> <<>>]
JDict(items) == [kind |-> "dict", val |-> <<>>, items |-> items]
JList(values) ==
    [kind |-> "list", val |-> <<>>, items |-> [i \in 1..Len(values) |-> <<NoKey, values[i]>>]]

\* What stands in place of a value when the code raised instead of producing one.
Raised == [kind |-> "raised", val |-> <<>>, items |-> <<>>]

HasKey(d, k) == \E i \in 1..Len(d.items) : d.items[i][1] = k

KeyIndex(d, k) == CHOOSE i \in 1..Len(d.items) : d.items[i][1] = k

\* d.get(k)
Get(d, k) == IF HasKey(d, k) THEN d.items[KeyIndex(d, k)][2] ELSE JNull

\* d[k] = v on a dict: in place when k is there, appended otherwise.
SetItem(d, k, v) ==
    IF HasKey(d, k)
    THEN [d EXCEPT !.items[KeyIndex(d, k)] = <<k, v>>]
    ELSE [d EXCEPT !.items = Append(@, <<k, v>>)]

\* "not v" for the values a document holds.
Falsy(v) ==
    \/ v.kind = "null"
    \/ v.kind = "str" /\ v.val = <<>>
    \/ v.kind \in {"dict", "list"} /\ v.items = <<>>

NAME == <<"n", "a", "m", "e">>
NAME_EN == <<"n", "a", "m", "e", "_", "e", "n">>
DESCRIPTION == <<"d", "e", "s", "c", "r", "i", "p", "t", "i", "o", "n">>
TYPE == <<"t", "y", "p", "e">>
ON_SAVE == <<"o", "n", "S", "a", "v", "e">>
STATUSES == <<"s", "t", "a", "t", "u", "s", "e", "s">>
SYSTEM == <<"s", "y", "s", "t", "e", "m">>

SKIP_VALUE_KEYS ==
    { <<"f", "o", "u", "n", "d", "r", "y", "I", "d">>,
      <<"u", "u", "i", "d">>,
      <<"i", "d">>,
      <<"i", "m", "g">>,
      <<"i", "c", "o", "n">>,
      <<"i", "c", "o", "n", "P", "a", "t", "h">>,
      <<"t", "a", "g">>,
      <<"t", "a", "g", "s">>,
      <<"s", "l", "u", "g">>,
      <<"k", "e", "y">>,
      <<"m", "o", "d", "u", "l", "e">>,
      <<"p", "a", "c", "k">>,
      <<"p", "a", "t", "h">>,
      <<"f", "i", "l", "e">>,
      <<"s", "o", "u", "r", "c", "e">>,
      <<"s", "o", "u", "r", "c", "e", "s">>,
      <<"d", "u", "r", "a", "t", "i", "o", "n", ".", "s", "e", "c", "o", "n", "d", "s">>,
      <<"d", "c", ".", "c", "a", "l", "c", "u", "l", "a", "t", "i", "o", "n">>,
      <<"c", "a", "l", "c", "u", "l", "a", "t", "i", "o", "n">>,
      <<"m", "o", "d", "e">>,
      <<"d", "e", "n", "o", "m", "i", "n", "a", "t", "i", "o", "n">>,
      <<"n", "u", "m", "b", "e", "r">>,
      <<"s", "c", "h", "o", "o", "l">>,
      <<"l", "e", "v", "e", "l">>,
      <<"s", "c", "a", "l", "i", "n", "g">>,
      <<"t", "a", "r", "g", "e", "t", ".", "a", "f", "f", "e", "c", "t", "s", ".", "c", "o", "u", "n", "t">>,
      <<"a", "b", "i", "l", "i", "t", "y">>,
      <<"a", "b", "i", "l", "i", "t", "i", "e", "s">> }

SKIP_SUBTREES == {SYSTEM}

ACTIVITIES_TYPE == <<"a", "c", "t", "i", "v", "i", "t", "i", "e", "s", ".", "t", "y", "p", "e">>
ACTIVATION_TYPE == <<"a", "c", "t", "i", "v", "a", "t", "i", "o", "n", ".", "t", "y", "p", "e">>
DAMAGE_ON_SAVE == <<"d", "a", "m", "a", "g", "e", ".", "o", "n", "S", "a", "v", "e">>

\* The entries <<context, value, replacement>> of ENUM_MAP.
ENUM_MAP ==
    << <<ACTIVITIES_TYPE, <<"d", "a", "m", "a", "g", "e">>, <<"d", "é", "g", "â", "t", "s">>>>,
      <<ACTIVITIES_TYPE, <<"s", "a", "v", "e">>, <<"s", "a", "u", "v", "e", "g", "a", "r", "d", "e">>>>,
      <<ACTIVITIES_TYPE, <<"h", "e", "a", "l", "i", "n", "g">>, <<"s", "o", "i", "n">>>>,
      <<ACTIVITIES_TYPE, <<"u", "t", "i", "l", "i", "t", "y">>, <<"u", "t", "i", "l", "i", "t", "a", "i", "r", "e">>>>,
      <<ACTIVATION_TYPE, <<"a", "c", "t", "i", "o", "n">>, <<"a", "c", "t", "i", "o", "n">>>>,
      <<ACTIVATION_TYPE, <<"b", "o", "n", "u", "s">>, <<"a", "c", "t", "i", "o", "n", " ", "b", "o", "n", "u", "s">>>>,
      <<ACTIVATION_TYPE, <<"r", "e", "a", "c", "t", "i", "o", "n">>, <<"r", "é", "a", "c", "t", "i", "o", "n">>>>,
      <<ACTIVATION_TYPE, <<"m", "i", "n", "u", "t", "e">>, <<"m", "i", "n", "u", "t", "e">>>>,
      <<ACTIVATION_TYPE, <<"h", "o", "u", "r">>, <<"h", "e", "u", "r", "e">>>>,
      <<ACTIVATION_TYPE, <<>>, <<>>>>,
      <<DAMAGE_ON_SAVE, <<"n", "o", "n", "e">>, <<"a", "u", "c", "u", "n">>>>,
      <<DAMAGE_ON_SAVE, <<"h", "a", "l", "f">>, <<"m", "o", "i", "t", "i", "é">>>> >>

\* The entries <<status, replacement>> of STATUS_MAP.
STATUS_MAP ==
    << <<<<"b", "l", "i", "n", "d", "e", "d">>, <<"a", "v", "e", "u", "g", "l", "é">>>>,
      <<<<"d", "e", "a", "f", "e", "n", "e", "d">>, <<"a", "s", "s", "o", "u", "r", "d", "i">>>>,
      <<<<"c", "h", "a", "r", "m", "e", "d">>, <<"c", "h", "a", "r", "m", "é">>>>,
      <<<<"f", "r", "i", "g", "h", "t", "e", "n", "e", "d">>, <<"t", "e", "r", "r", "o", "r", "i", "s", "é">>>>,
      <<<<"p", "a", "r", "a", "l", "y", "z", "e", "d">>, <<"p", "a", "r", "a", "l", "y", "s", "é">>>>,
      <<<<"p", "o", "i", "s", "o", "n", "e", "d">>, <<"e", "m", "p", "o", "i", "s", "o", "n", "n", "é">>>>,
      <<<<"p", "r", "o", "n", "e">>, <<"à", " ", "t", "e", "r", "r", "e">>>>,
      <<<<"r", "e", "s", "t", "r", "a", "i", "n", "e", "d">>, <<"e", "n", "t", "r", "a", "v", "é">>>>,
      <<<<"s", "t", "u", "n", "n", "e", "d">>, <<"h", "é", "b", "é", "t", "é">>>>,
      <<<<"u", "n", "c", "o", "n", "s", "c", "i", "o", "u", "s">>, <<"i", "n", "c", "o", "n", "s", "c", "i", "e", "n", "t">>>>,
      <<<<"p", "o", "i", "s", "o", "n">>, <<"p", "o", "i", "s", "o", "n">>>> >>

\* The entries <<en, fr>> of GLOSSARY_REPLACE, in the order of the dict.
GLOSSARY_REPLACE ==
    << <<<<"S", "m", "i", "t", "e">>, <<"C", "h", "â", "t", "i", "m", "e", "n", "t">>>>,
      <<<<"B", "l", "i", "n", "d", "i", "n", "g">>, <<"A", "v", "e", "u", "g", "l", "a", "n", "t">>>>,
      <<<<"B", "l", "i", "n", "d", "n", "e", "s", "s">>, <<"C", "é", "c", "i", "t", "é">>>>,
      <<<<"D", "e", "a", "f", "n", "e", "s", "s">>, <<"S", "u", "r", "d", "i", "t", "é">>>>,
      <<<<"a", "n", "d">>, <<"e", "t">>>>,
      <<<<"r", "a", "d", "i", "a", "n", "t">>, <<"r", "a", "y", "o", "n", "n", "a", "n", "t">>>> >>

\* ENUM_MAP.get((ctx, v), default)
EnumGet(ctx, v, default) ==
    IF \E n \in 1..Len(ENUM_MAP) : ENUM_MAP[n][1] = ctx /\ ENUM_MAP[n][2] = v
    THEN ENUM_MAP[CHOOSE n \in 1..Len(ENUM_MAP) :
                      ENUM_MAP[n][1] = ctx /\ ENUM_MAP[n][2] = v][3]
    ELSE default

\* STATUS_MAP.get(s, s)
StatusGet(s) ==
    IF \E n \in 1..Len(STATUS_MAP) : STATUS_MAP[n][1] = s
    THEN STATUS_MAP[CHOOSE n \in 1..Len(STATUS_MAP) : STATUS_MAP[n][1] = s][2]
    ELSE s

\* The loop of apply_glossary_fr from entry n on.
RECURSIVE GlossaryFrom(_, _)
GlossaryFrom(txt, n) ==
    IF n > Len(GLOSSARY_REPLACE) THEN txt
    ELSE GlossaryFrom(Replace(txt, GLOSSARY_REPLACE[n][1], GLOSSARY_REPLACE[n][2]), n + 1)

apply_glossary_fr(txt) == GlossaryFrom(txt, 1)

\* f"{dotpath}.{k}" if dotpath else k
ChildPath(dotpath, k) == IF dotpath # <<>> THEN dotpath \o <<".">> \o k ELSE k

\* s.split(".") from position i on; cur is the part being read.
RECURSIVE SplitFrom(_, _, _)
SplitFrom(s, i, cur) ==
    IF i > Len(s) THEN <<cur>>
    ELSE IF s[i] = "." THEN <<cur>> \o SplitFrom(s, i + 1, <<>>)
    ELSE SplitFrom(s, i + 1, Append(cur, s[i]))

Split(s) == SplitFrom(s, 1, <<>>)

\* any(p in SKIP_SUBTREES for p in parts), parts = dotpath.split(".") if dotpath else []
InSkippedSubtree(dotpath) ==
    LET parts == IF dotpath # <<>> THEN Split(dotpath) ELSE <<>>
    IN  \E n \in 1..Len(parts) : parts[n] \in SKIP_SUBTREES

should_skip_value(dotpath, key) ==
    key \in SKIP_VALUE_KEYS \/ InSkippedSubtree(dotpath)

\* pat in s
Contains(s, pat) == \E i \in 1..(Len(s) - Len(pat) + 1) : SubSeq(s, i, i + Len(pat) - 1) = pat

\* s.endswith(suf)
EndsWith(s, suf) ==
    Len(suf) <= Len(s) /\ SubSeq(s, Len(s) - Len(suf) + 1, Len(s)) = suf

\* The key of item i of obj as it enters the path: k for a dict, str(i) for a list.
PathKey(obj, i) == IF obj.kind = "dict" THEN obj.items[i][1] ELSE Dec(i - 1)

\* collect_strings(obj, dotpath, segments, anchors): what it appends, a sequence
\* of [seg, dotpath, key, idx]: the anchor is (dotpath, key) in a dict
\* (idx = -1) and (dotpath, idx) in a list.
RECURSIVE collect_strings(_, _)
RECURSIVE CollectFrom(_, _, _)
CollectFrom(obj, dotpath, i) ==
    IF i > Len(obj.items) THEN <<>>
    ELSE LET k == obj.items[i][1]
             v == obj.items[i][2]
             child_path == ChildPath(dotpath, PathKey(obj, i))
             skip == IF obj.kind = "dict" THEN should_skip_value(dotpath, k)
                     ELSE InSkippedSubtree(dotpath)
             here == IF v.kind = "str"
                     THEN IF skip THEN <<>>
                          ELSE << [seg |-> v.val, dotpath |-> dotpath, key |-> k,
                                   idx |-> IF obj.kind = "dict" THEN -1 ELSE i - 1] >>
                     ELSE collect_strings(v, child_path)
         IN  here \o CollectFrom(obj, dotpath, i + 1)

collect_strings(obj, dotpath) ==
    IF obj.kind \in {"dict", "list"} THEN CollectFrom(obj, dotpath, 1) ELSE <<>>

\* p.isdigit()
IsDigit(p) == p # <<>> /\ \A n \in 1..Len(p) : p[n] \in Digits

DigitVal(c) == (CHOOSE n \in 1..10 : DigitSeq[n] = c) - 1

\* int(p)
RECURSIVE ToInt(_)
ToInt(p) ==
    IF p = <<>> THEN 0
    ELSE 10 * ToInt(SubSeq(p, 1, Len(p) - 1)) + DigitVal(p[Len(p)])

\* set_translated from part n of dotpath.split(".") on: the walk down to the
\* parent, then parent[key_or_idx] = value.  The result is the tree with the
\* value in place, or Raised where Python raises (KeyError, IndexError,
\* TypeError).  a is the anchor [dotpath, key, idx].
RECURSIVE SetAlong(_, _, _, _, _)
SetAlong(parent, parts, n, a, value) ==
    IF n > Len(parts)
    THEN IF a.idx >= 0
         THEN IF parent.kind = "list" /\ a.idx < Len(parent.items)
              THEN [parent EXCEPT !.items[a.idx + 1] = <<NoKey, JStr(value)>>]
              ELSE Raised
         ELSE IF parent.kind = "dict" THEN SetItem(parent, a.key, JStr(value))
              ELSE Raised
    ELSE LET p == parts[n]
         IN  IF p = <<>> THEN SetAlong(parent, parts, n + 1, a, value)
             ELSE IF IsDigit(p)
             THEN IF parent.kind = "list" /\ ToInt(p) < Len(parent.items)
                  THEN LET c == SetAlong(parent.items[ToInt(p) + 1][2], parts, n + 1, a, value)
                       IN  IF c = Raised THEN Raised
                           ELSE [parent EXCEPT !.items[ToInt(p) + 1] = <<NoKey, c>>]
                  ELSE Raised
             ELSE IF parent.kind = "dict" /\ HasKey(parent, p)
                  THEN LET c == SetAlong(Get(parent, p), parts, n + 1, a, value)
                       IN  IF c = Raised THEN Raised ELSE SetItem(parent, p, c)
                  ELSE Raised

set_translated(root, a, value) ==
    SetAlong(root, IF a.dotpath = <<>> THEN <<>> ELSE Split(a.dotpath), 1, a, value)

\* Step 4 of process_file from anchor n on.
RECURSIVE ReinjectFrom(_, _, _, _)
ReinjectFrom(root, anch, tr, n) ==
    IF n > Len(anch) \/ root = Raised THEN root
    ELSE ReinjectFrom(set_translated(root, anch[n], tr[n]), anch, tr, n + 1)

DOT_ACTIVITIES == <<".", "a", "c", "t", "i", "v", "i", "t", "i", "e", "s">>
DOT_ACTIVITIES_DOT == <<".", "a", "c", "t", "i", "v", "i", "t", "i", "e", "s", ".">>
DOT_ACTIVATION == <<".", "a", "c", "t", "i", "v", "a", "t", "i", "o", "n">>
DOT_ACTIVATION_DOT == <<".", "a", "c", "t", "i", "v", "a", "t", "i", "o", "n", ".">>
DOT_DAMAGE == <<".", "d", "a", "m", "a", "g", "e">>
DOT_EFFECTS_DOT == <<".", "e", "f", "f", "e", "c", "t", "s", ".">>

\* obj[k] at the end of a turn of the dict loop of walk_and_postprocess whose
\* value v is a str: steps a) and c).
PostString(dotpath, k, v) ==
    LET a1 == IF k = TYPE /\ (EndsWith(dotpath, DOT_ACTIVITIES)
                              \/ Contains(dotpath, DOT_ACTIVITIES_DOT))
              THEN EnumGet(ACTIVITIES_TYPE, v, v) ELSE v
        a2 == IF k = TYPE /\ (EndsWith(dotpath, DOT_ACTIVATION)
                              \/ Contains(dotpath, DOT_ACTIVATION_DOT))
              THEN EnumGet(ACTIVATION_TYPE, v, a1) ELSE a1
        a3 == IF k = ON_SAVE /\ Contains(dotpath, DOT_DAMAGE)
              THEN EnumGet(DAMAGE_ON_SAVE, v, v) ELSE a2
    IN  IF k \in {NAME, DESCRIPTION} THEN apply_glossary_fr(v) ELSE a3

\* Step b): [STATUS_MAP.get(s, s) for s in v]; a dict or a list among the items
\* is unhashable and makes .get raise.
PostStatuses(v) ==
    IF \E n \in 1..Len(v.items) : v.items[n][2].kind \in {"dict", "list"} THEN Raised
    ELSE [v EXCEPT !.items =
             [n \in 1..Len(v.items) |->
                 <<NoKey, IF v.items[n][2].kind = "str"
                          THEN JStr(StatusGet(v.items[n][2].val))
                          ELSE v.items[n][2]>>]]

\* walk_and_postprocess(obj, dotpath): the tree it leaves, or Raised.
RECURSIVE walk_and_postprocess(_, _)
RECURSIVE WalkValue(_, _, _)
\* The value of item i of obj after its turn of the loop.  (The list that
\* replaced obj["statuses"] is a new one: the recursion into the old list is
\* not seen in the document.)
WalkValue(obj, dotpath, i) ==
    LET k == obj.items[i][1]
        v == obj.items[i][2]
        child == ChildPath(dotpath, PathKey(obj, i))
    IN  IF obj.kind = "dict"
        THEN IF v.kind = "str" THEN JStr(PostString(dotpath, k, v.val))
             ELSE IF k = STATUSES /\ v.kind = "list" THEN PostStatuses(v)
             ELSE walk_and_postprocess(v, child)
        ELSE IF v.kind = "str"
             THEN IF Contains(dotpath, DOT_EFFECTS_DOT) \/ Contains(dotpath, DOT_ACTIVITIES_DOT)
                  THEN JStr(apply_glossary_fr(v.val))
                  ELSE v
             ELSE walk_and_postprocess(v, child)

walk_and_postprocess(obj, dotpath) ==
    IF obj.kind \notin {"dict", "list"} THEN obj
    ELSE LET new == [i \in 1..Len(obj.items) |->
                        <<obj.items[i][1], WalkValue(obj, dotpath, i)>>]
         IN  IF \E i \in 1..Len(new) : new[i][2] = Raised THEN Raised
             ELSE [obj EXCEPT !.items = new]

\* Step 1 of process_file on one element of the root list.
CaptureNameEn(sp) ==
    IF sp.kind = "dict" /\ Get(sp, NAME).kind = "str" /\ Falsy(Get(sp, NAME_EN))
    THEN SetItem(sp, NAME_EN, Get(sp, NAME))
    ELSE sp

----------------------------------------------------------------------------
(* process_file: the document is read, name_en is captured, the strings     *)
(* are collected, translated slice by slice with translate_segments,        *)
(* reinjected and post-processed, and the document is written.              *)

MaxObjs == 2     \* elements of the root list of the document

\* Elements of the root list.
ObjPool ==
    { JDict(<<<<NAME, JStr(<<"S", "m", "i", "t", "e">>)>>>>),
      JDict(<<<<NAME, JStr(<<"a">>)>>, <<NAME_EN, JStr(<<"a">>)>>>>),
      JDict(<<<<NAME, JStr(<<"1", "d", "2">>)>>, <<NAME_EN, JStr(<<>>)>>>>),
      JDict(<<<<NAME, JNull>>>>),
      JDict(<<<<<<"i", "d">>, JStr(<<"a">>)>>, <<DESCRIPTION, JStr(<<"S", "m", "i", "t", "e">>)>>>>),
      JDict(<<<<SYSTEM, JDict(<<<<DESCRIPTION, JStr(<<"S", "m", "i", "t", "e">>)>>>>)>>>>),
      JDict(<<<<SYSTEM, JStr(<<"a">>)>>>>),
      JDict(<<<<SYSTEM, JDict(<<<<<<"a", "c", "t", "i", "v", "i", "t", "i", "e", "s">>, JList(<<JDict(<<<<TYPE, JStr(<<"d", "a", "m", "a", "g", "e">>)>>>>)>>)>>, <<STATUSES, JList(<<JStr(<<"b", "l", "i", "n", "d", "e", "d">>)>>)>>>>)>>>>),
      JDict(<<<<<<"a", "c", "t", "i", "v", "i", "t", "i", "e", "s">>, JList(<<JDict(<<<<TYPE, JStr(<<"d", "a", "m", "a", "g", "e">>)>>, <<<<"a", "c", "t", "i", "v", "a", "t", "i", "o", "n">>, JDict(<<<<TYPE, JStr(<<"b", "o", "n", "u", "s">>)>>>>)>>, <<<<"d", "a", "m", "a", "g", "e">>, JDict(<<<<ON_SAVE, JStr(<<"h", "a", "l", "f">>)>>>>)>>>>)>>)>>>>),
      JDict(<<<<<<"e", "f", "f", "e", "c", "t", "s">>, JList(<<JDict(<<<<STATUSES, JList(<<JStr(<<"b", "l", "i", "n", "d", "e", "d">>), JStr(<<"a">>)>>)>>, <<<<"x">>, JList(<<JStr(<<"S", "m", "i", "t", "e">>)>>)>>>>)>>)>>>>),
      JDict(<<<<STATUSES, JList(<<JDict(<<>>)>>)>>>>),
      JStr(<<"a">>) }

\* The documents read from in_path: a list of at most MaxObjs elements, or a
\* root that is no list.
Docs ==
    {JDict(<<>>)} \cup { JList(objs) : objs \in UNION { [1..n -> ObjPool] : n \in 0..MaxObjs } }

InitFile ==
    /\ data0 \in Docs
    /\ data = data0
    /\ segments = <<>> /\ anchors = <<>> /\ translatedAll = <<>> /\ fpc = "read"
    /\ outfile = <<>> /\ calls = <<>>
    /\ disk \in InitialDisks
    /\ cache = load_cache(disk)
    /\ segs = <<>> /\ prepared = <<>> /\ tokenlists = <<>> /\ results = <<>>
    /\ to_call = <<>> /\ idxs = <<>> /\ start = 0 /\ pc = "idle"
    /\ returned = <<>> /\ sent = <<>> /\ cache0 = cache /\ nsegs = 0
    /\ IdleTokens /\ IdleKey /\ IdleWs

\* Lines 356-367: the root must be a list; step 1.
Capture ==
    /\ fpc = "read"
    /\ IF data.kind # "list"
       THEN fpc' = "failed" /\ UNCHANGED data
       ELSE /\ data' = [data EXCEPT !.items =
                           [i \in 1..Len(data.items) |->
                               <<NoKey, CaptureNameEn(data.items[i][2])>>]]
            /\ fpc' = "captured"
    /\ UNCHANGED <<data0, segments, anchors, translatedAll, outfile, calls>>
    /\ UNCHANGED <<tokVars, segVars, keyVars, wsVars>>

\* Lines 370-372: step 2.
Collect ==
    /\ fpc = "captured"
    /\ LET c == collect_strings(data, <<>>)
       IN  /\ segments' = [i \in 1..Len(c) |-> c[i].seg]
           /\ anchors' = [i \in 1..Len(c) |->
                             [dotpath |-> c[i].dotpath, key |-> c[i].key, idx |-> c[i].idx]]
    /\ fpc' = "collected"
    /\ UNCHANGED <<data0, data, translatedAll, outfile, calls>>
    /\ UNCHANGED <<tokVars, segVars, keyVars, wsVars>>

\* Lines 377-379: a turn of the loop of step 3 enters translate_segments with
\* segments[start:start + BATCH_SIZE], start being len(translated).
TranslateSlice ==
    /\ fpc = "collected"
    /\ pc = "idle"
    /\ Len(translatedAll) < Len(segments)
    /\ EnterTranslateSegments(SubSeq(segments, Len(translatedAll) + 1,
                                     Min(Len(translatedAll) + BATCH_SIZE, Len(segments))))

\* Line 379: translated.extend(...) with what translate_segments returned.
Extend ==
    /\ fpc = "collected"
    /\ pc = "done"
    /\ translatedAll' = translatedAll \o returned
    /\ calls' = Append(calls, sent)
    /\ pc' = "idle"
    /\ UNCHANGED <<data0, data, segments, anchors, fpc, outfile>>
    /\ UNCHANGED <<cache, disk, segs, prepared, tokenlists, results, to_call, idxs, start,
                   returned, sent, cache0, nsegs>>
    /\ UNCHANGED <<tokVars, keyVars, wsVars>>

\* translate_segments raised: process_file ends with the exception.
Propagate ==
    /\ fpc = "collected"
    /\ pc = "failed"
    /\ fpc' = "failed"
    /\ calls' = Append(calls, sent)
    /\ UNCHANGED <<data0, data, segments, anchors, translatedAll, outfile>>
    /\ UNCHANGED <<tokVars, segVars, keyVars, wsVars>>

\* Lines 382-384: step 4.
Reinject ==
    /\ fpc = "collected"
    /\ pc = "idle"
    /\ Len(translatedAll) >= Len(segments)
    /\ LET r == ReinjectFrom(data, anchors, translatedAll, 1)
       IN  IF r = Raised
           THEN fpc' = "failed" /\ UNCHANGED data
           ELSE fpc' = "reinjected" /\ data' = r
    /\ UNCHANGED <<data0, segments, anchors, translatedAll, outfile, calls>>
    /\ UNCHANGED <<tokVars, segVars, keyVars, wsVars>>

\* Line 387: step 5.
Postprocess ==
    /\ fpc = "reinjected"
    /\ LET r == walk_and_postprocess(data, <<>>)
       IN  IF r = Raised
           THEN fpc' = "failed" /\ UNCHANGED data
           ELSE fpc' = "postprocessed" /\ data' = r
    /\ UNCHANGED <<data0, segments, anchors, translatedAll, outfile, calls>>
    /\ UNCHANGED <<tokVars, segVars, keyVars, wsVars>>

\* Lines 390-391: step 6.
Write ==
    /\ fpc = "postprocessed"
    /\ outfile' = data
    /\ disk' = save_cache(cache)
    /\ fpc' = "written"
    /\ UNCHANGED <<data0, data, segments, anchors, translatedAll, calls>>
    /\ UNCHANGED <<cache, segs, prepared, tokenlists, results, to_call, idxs, start, pc,
                   returned, sent, cache0, nsegs>>
    /\ UNCHANGED <<tokVars, keyVars, wsVars>>

NextFile ==
    \/ Capture
    \/ Collect
    \/ TranslateSlice
    \/ \E reply \in {"ok", "short", "long"} : Batch(reply)
    \/ BatchRaises
    \/ Return
    \/ Extend
    \/ Propagate
    \/ Reinject
    \/ Postprocess
    \/ Write

SpecFile == InitFile /\ [][NextFile]_vars

\* The provider answered every batch of the run in full.
AllCallsAnswered ==
    \A c \in 1..Len(calls) : \A b \in 1..Len(calls[c]) : calls[c][b].reply = "ok"

\* C12 (as claimed): when process_file has written the document, every element
\* of the root list that was a dict with a string name and no name_en has
\* name_en equal to the name it had in the input, and its name is the
\* translation returned for it (as post-processed by step 5).
C12_NameEnIsOriginal ==
    (fpc = "written" /\ AllCallsAnswered) =>
        \A i \in 1..Len(data0.items) :
            LET sp0 == data0.items[i][2]
                sp == outfile.items[i][2]
            IN  (sp0.kind = "dict" /\ Get(sp0, NAME).kind = "str" /\ ~HasKey(sp0, NAME_EN))
                => /\ Get(sp, NAME_EN) = Get(sp0, NAME)
                   /\ \E n \in 1..Len(anchors) :
                          /\ anchors[n] = [dotpath |-> Dec(i - 1), key |-> NAME, idx |-> -1]
                          /\ Get(sp, NAME) = JStr(apply_glossary_fr(translatedAll[n]))

\* The string values of obj that lie under a key named system, in document
\* order; under tells that obj itself lies under such a key.
RECURSIVE SystemStrings(_, _)
RECURSIVE SystemStringsFrom(_, _, _)
SystemStringsFrom(obj, under, i) ==
    IF i > Len(obj.items) THEN <<>>
    ELSE LET v == obj.items[i][2]
             u == under \/ (obj.kind = "dict" /\ obj.items[i][1] = SYSTEM)
             here == IF v.kind = "str" THEN (IF u THEN <<v.val>> ELSE <<>>)
                     ELSE SystemStrings(v, u)
         IN  here \o SystemStringsFrom(obj, under, i + 1)

SystemStrings(obj, under) ==
    IF obj.kind \in {"dict", "list"} THEN SystemStringsFrom(obj, under, 1) ELSE <<>>

\* C16 (as claimed): when process_file has written the document, every string
\* value under a key named system, at any depth, is the one of the input.
C16_SystemUntouched ==
    (fpc = "written" /\ AllCallsAnswered) =>
        SystemStrings(outfile, FALSE) = SystemStrings(data0, FALSE)

====
